---- MODULE Spec2Model ----
(***************************************************************************)
(* The cluster-join retry controllers of the agent: Agent.retryJoin (LAN)  *)
(* and Agent.retryJoinWan (WAN).  Each runs as one goroutine; both report  *)
(* exhaustion on the same channel a.retryJoinCh, read by the owning        *)
(* process.                                                                *)
(***************************************************************************)
EXTENDS Integers, Sequences, FiniteSets, TLC

\* ------------------------------------------------------------------ bounds
\* largest configured RetryMaxAttempts / RetryMaxAttemptsWan
MaxMaxAttempts == 1
\* longest configured RetryJoin list
MaxSpecLen == 2
\* longest configured RetryJoinWan list
MaxWanLen == 1
\* longest RetryJoin list when the LAN controller runs alone
MaxSplitLen == 3

\* failures observed per controller (covers maxAttempts + 1 for every
\* configured maximum, and a window of that length when maxAttempts = 0)
AttemptCap == MaxMaxAttempts + 1

\* ------------------------------------------------------------- strings
\* A Go string is the sequence of its characters.
Marker == <<"p", "r", "o", "v", "i", "d", "e", "r", "=">>

\* strings.Contains(s, substr)
Contains(s, substr) ==
    \E i \in 1..(Len(s) - Len(substr) + 1) :
        SubSeq(s, i, i + Len(substr) - 1) = substr

\* "10.0.0.1"
Addr1 == <<"1", "0", ".", "0", ".", "0", ".", "1">>
\* "provider=mock"
ProviderMock == Marker \o <<"m", "o", "c", "k">>
\* "10.0.0.2"
Addr2 == <<"1", "0", ".", "0", ".", "0", ".", "2">>
\* "provider=mock key=value"
ProviderMockKV ==
    ProviderMock \o <<" ", "k", "e", "y", "=", "v", "a", "l", "u", "e">>
\* "1.1.1.1", an address the discovery provider can return
Found1 == <<"1", ".", "1", ".", "1", ".", "1">>

\* entries a configured list is made of
Entries == {Addr1, ProviderMock}

RECURSIVE SeqsUpTo(_, _)
SeqsUpTo(S, n) ==
    IF n = 0 THEN {<<>>}
    ELSE LET shorter == SeqsUpTo(S, n - 1)
         IN  shorter \cup {Append(s, e) : s \in {t \in shorter : Len(t) = n - 1}, e \in S}

JoinSpecs == SeqsUpTo(Entries, MaxSpecLen)
WanSpecs == SeqsUpTo(Entries, MaxWanLen)
\* the lists the LAN controller is run alone on: two addresses and two
\* directives, so that order and the choice of directive show
SplitEntries == {Addr1, Addr2, ProviderMock, ProviderMockKV}
SplitSpecs == SeqsUpTo(SplitEntries, MaxSplitLen)
\* configured RetryInterval and RetryIntervalWan
LanIntervals == {10}
WanIntervals == {30}

\* ------------------------------------------------------------- errors
Nil == "<nil>"
NoServers == "No servers to join"
JoinErrs == {"join: connection refused", "join: timeout"}
DiscoverErr == "discover: lookup failed"
ExhaustedLan == "agent: max join retry exhausted, exiting"
ExhaustedWan == "agent: max join -wan retry exhausted, exiting"

\* ------------------------------------------------- external collaborators
\* discover.Addrs(disco, logger): a list of addresses, or an error and no
\* addresses
AddrsOutcomes ==
    {[servers |-> s, err |-> Nil] : s \in {<<>>, <<Found1>>}}
        \cup {[servers |-> <<>>, err |-> DiscoverErr]}

\* a.JoinLAN(addrs) / a.JoinWAN(addrs): a peer count, or an error
JoinOutcomes ==
    {[n |-> 1, err |-> Nil]} \cup {[n |-> 0, err |-> e] : e \in JoinErrs}

\* slots of a.retryJoinCh ("single-slot asynchronous hand-off")
FailureSinkCap == 1
\* values the owning process reads before it decides to terminate
OwnerReads == 1

\* --------------------------------------------------------------- state
Ctrl == {"lan", "wan"}

VARIABLES
    config,        \* a.config: RetryJoin, RetryJoinWan, RetryMaxAttempts, ...
    pc,            \* position of each goroutine
    addrs,         \* retryJoin: addrs (line 20)
    disco,         \* retryJoin: disco (line 21); <<>> is ""
    servers,       \* retryJoin: servers (line 33)
    err,           \* retryJoin: err declared at line 34
    joinErr,       \* err assigned by the join call (line 47, line 78)
    attempt,       \* attempt (line 31, line 76)
    retryJoinCh,   \* a.retryJoinCh
    logger,        \* lines each goroutine printed on a.logger
    joinCalls,     \* number of JoinLAN / JoinWAN calls made
    joinArg,       \* argument of the last JoinLAN / JoinWAN call
    joined,        \* a JoinLAN / JoinWAN call has returned without error
    resolveCalls,  \* number of discover.Addrs calls made
    resolveArg,    \* argument of the last discover.Addrs call
    resolveErr,    \* error of the last discover.Addrs call
    resolveRes,    \* addresses the last discover.Addrs call returned
    emptyLists,    \* number of iterations that reached line 45
    sleeps,        \* number of time.Sleep calls made
    delivered,     \* number of sends on retryJoinCh completed
    ownerReceived  \* values the owning process has read from retryJoinCh

vars == <<config, pc, addrs, disco, servers, err, joinErr, attempt,
          retryJoinCh, logger, joinCalls, joinArg, joined, resolveCalls,
          resolveArg, resolveErr, resolveRes, emptyLists, sleeps, delivered,
          ownerReceived>>

lanLocals == <<addrs, disco, servers, err>>
resolveHist == <<resolveCalls, resolveArg, resolveErr, resolveRes>>
joinHist == <<joinCalls, joinArg, joined>>

\* a.logger.Printf(...): level, format, and the values formatted
Line(level, msg, e, interval, srv, n) ==
    [level |-> level, msg |-> msg, err |-> e, interval |-> interval,
     servers |-> srv, n |-> n]

\* the sink keeps no history the controllers read: what is observed of it is
\* how many lines a goroutine printed and the line it printed last
NoLine == Line("", "", Nil, 0, <<>>, 0)

Printed(log, line) == [n |-> log.n + 1, last |-> line]

Printf(c, line) == logger' = [logger EXCEPT ![c] = Printed(@, line)]

\* ------------------------------------------------------ pure helpers
\* variant: each address put in front of the ones already kept
RECURSIVE SplitAddrs_Reversed(_)
SplitAddrs_Reversed(spec) ==
    IF spec = <<>> THEN <<>>
    ELSE IF Contains(Head(spec), Marker) THEN SplitAddrs_Reversed(Tail(spec))
         ELSE SplitAddrs_Reversed(Tail(spec)) \o <<Head(spec)>>

\* lines 20-28: the entries without the marker, in order
RECURSIVE SplitAddrs(_)
SplitAddrs(spec) ==
    IF spec = <<>> THEN <<>>
    ELSE IF Contains(Head(spec), Marker) THEN SplitAddrs(Tail(spec))
         ELSE <<Head(spec)>> \o SplitAddrs(Tail(spec))

\* variant: the first entry with the marker is kept
RECURSIVE SplitDisco_First(_)
SplitDisco_First(spec) ==
    IF spec = <<>> THEN <<>>
    ELSE IF Contains(Head(spec), Marker) THEN Head(spec)
         ELSE SplitDisco_First(Tail(spec))

\* lines 21-26: the last entry with the marker, "" if none
RECURSIVE SplitDisco(_)
SplitDisco(spec) ==
    IF spec = <<>> THEN <<>>
    ELSE LET rest == SplitDisco(Tail(spec))
         IN  IF rest # <<>> THEN rest
             ELSE IF Contains(Head(spec), Marker) THEN Head(spec)
                  ELSE <<>>

\* variant: the test with >= for >
MaxExceeded_AtMax(max, att) == max > 0 /\ att >= max

\* variant: the test without its "max > 0" conjunct
MaxExceeded_NoZeroCheck(max, att) == att > max

\* lines 55 and 85: cfg.RetryMaxAttempts > 0 && attempt > cfg.RetryMaxAttempts
MaxExceeded(max, att) == max > 0 /\ att > max

\* variant: the test of line 44 left out
NoCandidates_Never(srv) == FALSE

\* line 44: len(servers) == 0
NoCandidates(srv) == Len(srv) = 0

\* variant: append(addrs, servers...)
AppendAddrs_StaticFirst(srv, static) == static \o srv

\* line 43: servers = append(servers, addrs...)
AppendAddrs(srv, static) == srv \o static

\* --------------------------------------------------------------- Init
\* neither goroutine has run yet
Fresh ==
    /\ pc = [c \in Ctrl |-> "start"]
    /\ addrs = <<>>
    /\ disco = <<>>
    /\ servers = <<>>
    /\ err = Nil
    /\ joinErr = [c \in Ctrl |-> Nil]
    /\ attempt = [c \in Ctrl |-> 0]
    /\ retryJoinCh = <<>>
    /\ logger = [c \in Ctrl |-> [n |-> 0, last |-> NoLine]]
    /\ joinCalls = [c \in Ctrl |-> 0]
    /\ joinArg = [c \in Ctrl |-> <<>>]
    /\ resolveCalls = 0
    /\ resolveArg = <<>>
    /\ resolveErr = Nil
    /\ resolveRes = <<>>
    /\ emptyLists = 0
    /\ joined = [c \in Ctrl |-> FALSE]
    /\ sleeps = [c \in Ctrl |-> 0]
    /\ delivered = [c \in Ctrl |-> 0]
    /\ ownerReceived = 0

Init ==
    /\ config \in [RetryJoin : JoinSpecs,
                   RetryJoinWan : WanSpecs,
                   RetryMaxAttempts : 0..MaxMaxAttempts,
                   RetryMaxAttemptsWan : 0..MaxMaxAttempts,
                   RetryInterval : LanIntervals,
                   RetryIntervalWan : WanIntervals]
    /\ Fresh

\* the LAN controller alone, on longer lists; no RetryJoinWan is configured
LanInit ==
    /\ config \in [RetryJoin : SplitSpecs,
                   RetryJoinWan : {<<>>},
                   RetryMaxAttempts : 0..MaxMaxAttempts,
                   RetryMaxAttemptsWan : {0},
                   RetryInterval : LanIntervals,
                   RetryIntervalWan : WanIntervals]
    /\ Fresh

\* ------------------------------------------------------------ retryJoin
\* lines 14-31, given the result of the test of line 15
StartStep(isEmpty) ==
    /\ pc["lan"] = "start"
    /\ IF isEmpty
       THEN /\ pc' = [pc EXCEPT !["lan"] = "done"]
            /\ UNCHANGED <<addrs, disco, logger>>
       ELSE /\ addrs' = SplitAddrs(config.RetryJoin)
            /\ disco' = SplitDisco(config.RetryJoin)
            /\ Printf("lan", Line("INFO", "Joining cluster...", Nil, 0, <<>>, 0))
            /\ pc' = [pc EXCEPT !["lan"] = "resolve"]
    /\ attempt' = [attempt EXCEPT !["lan"] = 0]
    /\ UNCHANGED <<config, servers, err, joinErr, retryJoinCh, joinHist,
                   resolveHist, emptyLists, sleeps, delivered, ownerReceived>>

\* variant: lines 15-17 left out
retryJoinStart_NoEmptyCheck == StartStep(FALSE)

\* lines 14-31: return on an empty list, else split, log, attempt := 0
retryJoinStart == StartStep(Len(config.RetryJoin) = 0)

\* lines 33-46, given whether an error of discover.Addrs ends the iteration
ResolveStep(errEndsIteration) ==
    /\ pc["lan"] = "resolve"
    /\ \E out \in (IF disco # <<>> THEN AddrsOutcomes
                   ELSE {[servers |-> <<>>, err |-> Nil]}) :
        LET found == AppendAddrs(out.servers, addrs)
            errLine == Line("ERR", "%s", out.err, 0, <<>>, 0)
            discLine == Line("ERR", "Discovered servers: %v", Nil, 0, out.servers, 0)
            ended == errEndsIteration /\ out.err # Nil
        IN  /\ servers' = found
            /\ err' = IF NoCandidates(found) THEN NoServers ELSE out.err
            /\ pc' = [pc EXCEPT !["lan"] =
                         IF NoCandidates(found) \/ ended THEN "fail" ELSE "join"]
            /\ emptyLists' = IF NoCandidates(found) THEN emptyLists + 1
                             ELSE emptyLists
            /\ IF disco # <<>>
               THEN /\ resolveCalls' = resolveCalls + 1
                    /\ resolveArg' = disco
                    /\ resolveErr' = out.err
                    /\ resolveRes' = out.servers
                    /\ logger' = [logger EXCEPT !["lan"] =
                          IF out.err # Nil THEN Printed(Printed(@, errLine), discLine)
                          ELSE Printed(@, discLine)]
               ELSE UNCHANGED <<resolveHist, logger>>
    /\ joinErr' = [joinErr EXCEPT !["lan"] = Nil]
    /\ UNCHANGED <<config, addrs, disco, attempt, retryJoinCh, joinHist, sleeps,
                   delivered, ownerReceived>>

\* variant: an error of discover.Addrs is handled as a failed iteration
retryJoinResolve_ErrFails == ResolveStep(TRUE)

\* lines 33-46: fresh servers and err, discovery, candidate list
retryJoinResolve == ResolveStep(FALSE)

\* lines 47-51, given the list passed to JoinLAN and where control goes
\* after the INFO line
JoinLANStep(list, afterInfo) ==
    /\ pc["lan"] = "join"
    /\ \E out \in JoinOutcomes :
        /\ joinCalls' = [joinCalls EXCEPT !["lan"] = @ + 1]
        /\ joinArg' = [joinArg EXCEPT !["lan"] = list]
        /\ joinErr' = [joinErr EXCEPT !["lan"] = out.err]
        /\ joined' = [joined EXCEPT !["lan"] = (out.err = Nil)]
        /\ IF out.err = Nil
           THEN /\ Printf("lan", Line("INFO", "Join completed. Synced with %d initial agents",
                                      Nil, 0, <<>>, out.n))
                /\ pc' = [pc EXCEPT !["lan"] = afterInfo]
           ELSE /\ pc' = [pc EXCEPT !["lan"] = "fail"]
                /\ UNCHANGED logger
    /\ UNCHANGED <<config, lanLocals, attempt, retryJoinCh, resolveHist,
                   emptyLists, sleeps, delivered, ownerReceived>>

\* variant: the return of line 50 left out
retryJoinAttempt_NoReturn == JoinLANStep(servers, "fail")

\* variant: the configured list passed instead of servers
retryJoinAttempt_RawList == JoinLANStep(config.RetryJoin, "done")

\* lines 47-51: n, err := a.JoinLAN(servers); the err of this block
\* shadows the err of line 34
retryJoinAttempt == JoinLANStep(servers, "done")

\* lines 54-60: count the failure, then either go to the send or warn
retryJoinFail ==
    /\ pc["lan"] = "fail"
    /\ attempt["lan"] < AttemptCap
    /\ attempt' = [attempt EXCEPT !["lan"] = @ + 1]
    /\ IF MaxExceeded(config.RetryMaxAttempts, attempt'["lan"])
       THEN /\ pc' = [pc EXCEPT !["lan"] = "send"]
            /\ UNCHANGED logger
       ELSE /\ Printf("lan", Line("WARN", "Join failed: %v, retrying in %v",
                                  err, config.RetryInterval, <<>>, 0))
            /\ pc' = [pc EXCEPT !["lan"] = "sleep"]
    /\ UNCHANGED <<config, lanLocals, joinErr, retryJoinCh, joinHist,
                   resolveHist, emptyLists, sleeps, delivered, ownerReceived>>

\* lines 56-57, given where control goes after the send
SendStep(afterSend) ==
    /\ pc["lan"] = "send"
    /\ Len(retryJoinCh) < FailureSinkCap
    /\ retryJoinCh' = Append(retryJoinCh, ExhaustedLan)
    /\ delivered' = [delivered EXCEPT !["lan"] = @ + 1]
    /\ pc' = [pc EXCEPT !["lan"] = afterSend]
    /\ UNCHANGED <<config, lanLocals, joinErr, attempt, logger, joinHist,
                   resolveHist, emptyLists, sleeps, ownerReceived>>

\* variant: the return of line 57 left out
retryJoinSend_NoReturn == SendStep("sleep")

\* lines 56-57: a.retryJoinCh <- error, then return
retryJoinSend == SendStep("done")

\* line 61: time.Sleep(cfg.RetryInterval) returns, next iteration
retryJoinSleep ==
    /\ pc["lan"] = "sleep"
    /\ sleeps' = [sleeps EXCEPT !["lan"] = @ + 1]
    /\ pc' = [pc EXCEPT !["lan"] = "resolve"]
    /\ UNCHANGED <<config, lanLocals, joinErr, attempt, retryJoinCh, logger,
                   joinHist, resolveHist, emptyLists, delivered,
                   ownerReceived>>

\* --------------------------------------------------------- retryJoinWan
\* lines 68-76
retryJoinWanStart ==
    /\ pc["wan"] = "start"
    /\ IF Len(config.RetryJoinWan) = 0
       THEN /\ pc' = [pc EXCEPT !["wan"] = "done"]
            /\ UNCHANGED logger
       ELSE /\ Printf("wan", Line("INFO", "Joining WAN cluster...", Nil, 0, <<>>, 0))
            /\ pc' = [pc EXCEPT !["wan"] = "join"]
    /\ attempt' = [attempt EXCEPT !["wan"] = 0]
    /\ UNCHANGED <<config, lanLocals, joinErr, retryJoinCh, joinHist,
                   resolveHist, emptyLists, sleeps, delivered, ownerReceived>>

\* lines 78-82, given the list passed to JoinWAN
JoinWANStep(list) ==
    /\ pc["wan"] = "join"
    /\ \E out \in JoinOutcomes :
        /\ joinCalls' = [joinCalls EXCEPT !["wan"] = @ + 1]
        /\ joinArg' = [joinArg EXCEPT !["wan"] = list]
        /\ joinErr' = [joinErr EXCEPT !["wan"] = out.err]
        /\ joined' = [joined EXCEPT !["wan"] = (out.err = Nil)]
        /\ IF out.err = Nil
           THEN /\ Printf("wan", Line("INFO", "Join -wan completed. Synced with %d initial agents",
                                      Nil, 0, <<>>, out.n))
                /\ pc' = [pc EXCEPT !["wan"] = "done"]
           ELSE /\ pc' = [pc EXCEPT !["wan"] = "fail"]
                /\ UNCHANGED logger
    /\ UNCHANGED <<config, lanLocals, attempt, retryJoinCh, resolveHist,
                   emptyLists, sleeps, delivered, ownerReceived>>

\* variant: the entries with the marker taken out, as retryJoin does
retryJoinWanAttempt_StaticOnly == JoinWANStep(SplitAddrs(config.RetryJoinWan))

\* lines 78-82: n, err := a.JoinWAN(cfg.RetryJoinWan)
retryJoinWanAttempt == JoinWANStep(config.RetryJoinWan)

\* lines 84-90
retryJoinWanFail ==
    /\ pc["wan"] = "fail"
    /\ attempt["wan"] < AttemptCap
    /\ attempt' = [attempt EXCEPT !["wan"] = @ + 1]
    /\ IF MaxExceeded(config.RetryMaxAttemptsWan, attempt'["wan"])
       THEN /\ pc' = [pc EXCEPT !["wan"] = "send"]
            /\ UNCHANGED logger
       ELSE /\ Printf("wan", Line("WARN", "Join -wan failed: %v, retrying in %v",
                                  joinErr["wan"], config.RetryIntervalWan, <<>>, 0))
            /\ pc' = [pc EXCEPT !["wan"] = "sleep"]
    /\ UNCHANGED <<config, lanLocals, joinErr, retryJoinCh, joinHist,
                   resolveHist, emptyLists, sleeps, delivered, ownerReceived>>

\* lines 86-87
retryJoinWanSend ==
    /\ pc["wan"] = "send"
    /\ Len(retryJoinCh) < FailureSinkCap
    /\ retryJoinCh' = Append(retryJoinCh, ExhaustedWan)
    /\ delivered' = [delivered EXCEPT !["wan"] = @ + 1]
    /\ pc' = [pc EXCEPT !["wan"] = "done"]
    /\ UNCHANGED <<config, lanLocals, joinErr, attempt, logger, joinHist,
                   resolveHist, emptyLists, sleeps, ownerReceived>>

\* line 91
retryJoinWanSleep ==
    /\ pc["wan"] = "sleep"
    /\ sleeps' = [sleeps EXCEPT !["wan"] = @ + 1]
    /\ pc' = [pc EXCEPT !["wan"] = "join"]
    /\ UNCHANGED <<config, lanLocals, joinErr, attempt, retryJoinCh, logger,
                   joinHist, resolveHist, emptyLists, delivered,
                   ownerReceived>>

\* ------------------------------------------------------- owning process
\* the owning process reads a value from a.retryJoinCh
ownerReceive ==
    /\ ownerReceived < OwnerReads
    /\ Len(retryJoinCh) > 0
    /\ retryJoinCh' = Tail(retryJoinCh)
    /\ ownerReceived' = ownerReceived + 1
    /\ UNCHANGED <<config, pc, lanLocals, joinErr, attempt, logger, joinHist,
                   resolveHist, emptyLists, sleeps, delivered>>

\* ----------------------------------------------------------------- Next
retryJoin ==
    \/ retryJoinStart
    \/ retryJoinResolve
    \/ retryJoinAttempt
    \/ retryJoinFail
    \/ retryJoinSend
    \/ retryJoinSleep

retryJoinWan ==
    \/ retryJoinWanStart
    \/ retryJoinWanAttempt
    \/ retryJoinWanFail
    \/ retryJoinWanSend
    \/ retryJoinWanSleep

Next ==
    \/ retryJoin
    \/ retryJoinWan
    \/ ownerReceive

Spec == Init /\ [][Next]_vars

\* each goroutine keeps running: every call returns and every sleep ends
LiveSpec == Spec /\ WF_vars(retryJoin) /\ WF_vars(retryJoinWan)

\* the LAN goroutine running before the WAN goroutine is scheduled
LanNext ==
    \/ retryJoin

LanSpec == LanInit /\ [][LanNext]_vars

\* ------------------------------------------------- reading the state
\* the configuration each controller reads
JoinSpecOf(c) == IF c = "lan" THEN config.RetryJoin ELSE config.RetryJoinWan
MaxAttemptsOf(c) ==
    IF c = "lan" THEN config.RetryMaxAttempts ELSE config.RetryMaxAttemptsWan
IntervalOf(c) ==
    IF c = "lan" THEN config.RetryInterval ELSE config.RetryIntervalWan

\* the four states of a controller, each read from what it has done so far
NotYetStarted(c) == logger[c].n = 0
Retrying(c) == pc[c] \in {"resolve", "join", "fail", "send", "sleep"}
Succeeded(c) == joined[c]
Exhausted(c) == delivered[c] > 0

\* the error of the iteration a controller is in: the error its join call
\* returned, or the no-servers error when the candidate list was empty
IterationErr(c) ==
    IF c = "lan" /\ servers = <<>> THEN NoServers ELSE joinErr[c]

\* no JoinLAN call has returned an error so far
NoJoinLANError ==
    joinCalls["lan"] = (IF joined["lan"] THEN 1 ELSE 0)

\* ---------------------------------------------------------------- claims

\* C1 (as stated): with maxAttempts = N > 0 and a non-empty JoinSpec a
\* controller makes at most N join calls (no (N+1)-th attempt), and once its
\* TerminalError is delivered after failed joins only, it has made exactly N.
C1_ExactlyNAttempts ==
    \A c \in Ctrl :
        (Len(JoinSpecOf(c)) > 0 /\ MaxAttemptsOf(c) > 0) =>
            /\ joinCalls[c] <= MaxAttemptsOf(c)
            /\ delivered[c] <= 1
            /\ (delivered[c] = 1 /\ joinCalls[c] = attempt[c]) =>
                   joinCalls[c] = MaxAttemptsOf(c)

\* C2: with maxAttempts = 0 a controller never reaches the send and never
\* delivers a TerminalError; every failed iteration, of whatever kind, ends
\* in the sleep, and the sleep ends in the next iteration.
C2_ZeroNeverTerminal ==
    [][\A c \in Ctrl :
          MaxAttemptsOf(c) = 0 =>
              /\ delivered'[c] = 0
              /\ pc'[c] # "send"
              /\ (pc[c] = "fail" /\ pc'[c] # "fail") =>
                     (pc'[c] = "sleep" /\ attempt'[c] = attempt[c] + 1)
              /\ (pc[c] = "sleep" /\ pc'[c] # "sleep") =>
                     (pc'[c] = (IF c = "lan" THEN "resolve" ELSE "join")
                        /\ sleeps'[c] = sleeps[c] + 1)]_vars

\* C2 witness: both controllers, unbounded, have failed as often as the
\* window allows, the LAN one last on an empty candidate list after a failed
\* resolve, and wait for their next iteration.
C2_Witness ==
    /\ config.RetryMaxAttempts = 0 /\ config.RetryMaxAttemptsWan = 0
    /\ attempt["lan"] = AttemptCap /\ attempt["wan"] = AttemptCap
    /\ pc["lan"] = "sleep" /\ pc["wan"] = "sleep"
    /\ err = NoServers /\ resolveErr = DiscoverErr
    /\ joinCalls["lan"] > 0

\* C3 (as stated): a controller that is at its send can always complete it.
C3_SendNeverBlocks ==
    \A c \in Ctrl : pc[c] = "send" => Len(retryJoinCh) < FailureSinkCap

C5_SuccessIsFinal ==
    [][\A c \in Ctrl :
          /\ (~joined[c] /\ joined'[c]) => pc'[c] = "done"
          /\ joined[c] =>
                /\ joined'[c]
                /\ pc'[c] = pc[c]
                /\ joinCalls'[c] = joinCalls[c]
                /\ sleeps'[c] = sleeps[c]
                /\ attempt'[c] = attempt[c]
                /\ logger'[c] = logger[c]
                /\ delivered'[c] = delivered[c]
                /\ (c = "lan" => resolveCalls' = resolveCalls)]_vars

\* C5 witness: the LAN controller succeeded after a failed attempt while the
\* WAN controller went on and delivered its TerminalError.
C5_Witness ==
    /\ joined["lan"] /\ attempt["lan"] >= 1 /\ pc["lan"] = "done"
    /\ delivered["wan"] = 1

\* C6: a controller with an empty JoinSpec prints nothing, resolves nothing,
\* joins nothing, never sleeps, counts no attempt and delivers nothing.
C6_EmptySpecDoesNothing ==
    \A c \in Ctrl :
        Len(JoinSpecOf(c)) = 0 =>
            /\ pc[c] \in {"start", "done"}
            /\ logger[c].n = 0
            /\ joinCalls[c] = 0
            /\ sleeps[c] = 0
            /\ attempt[c] = 0
            /\ delivered[c] = 0
            /\ (c = "lan" => resolveCalls = 0 /\ emptyLists = 0)

\* C6 witness: both controllers have returned on an empty JoinSpec, with a
\* positive maximum for one and an unbounded policy for the other.
C6_Witness ==
    /\ Len(config.RetryJoin) = 0 /\ Len(config.RetryJoinWan) = 0
    /\ pc["lan"] = "done" /\ pc["wan"] = "done"
    /\ config.RetryMaxAttempts > 0 /\ config.RetryMaxAttemptsWan = 0

\* C7: a controller delivers at most one TerminalError, is at every moment
\* in exactly one of not-yet-started, retrying, succeeded, exhausted, and
\* makes no join call once succeeded or exhausted.
ExactlyOneState(c) ==
    Cardinality({k \in 1..4 :
        <<NotYetStarted(c), Retrying(c), Succeeded(c), Exhausted(c)>>[k]}) = 1

C7_OneTerminalOneState ==
    [][\A c \in Ctrl :
          /\ delivered[c] <= 1 /\ delivered'[c] <= 1
          /\ ExactlyOneState(c) /\ ExactlyOneState(c)'
          /\ (Succeeded(c) \/ Exhausted(c)) =>
                (joinCalls'[c] = joinCalls[c] /\ pc'[c] = pc[c])]_vars

\* C7 witness: one controller exhausted, the other succeeded, and the
\* owning process has read the TerminalError.
C7_Witness ==
    /\ delivered["lan"] = 1 /\ pc["lan"] = "done"
    /\ joined["wan"] /\ pc["wan"] = "done"
    /\ ownerReceived = 1

\* C8: in a LAN iteration whose resolve failed the candidate list is
\* staticAddrs alone, the controller goes on (to the join if staticAddrs is
\* non-empty, to the failure handling otherwise), and the join call of that
\* iteration is made with exactly staticAddrs.
C8_ResolveFailureKeepsStatic ==
    [][/\ (pc["lan"] = "resolve" /\ resolveCalls' # resolveCalls
              /\ resolveErr' # Nil) =>
                /\ servers' = addrs
                /\ pc'["lan"] = (IF addrs # <<>> THEN "join" ELSE "fail")
       /\ (pc["lan"] = "join" /\ resolveErr # Nil /\ pc'["lan"] # "join") =>
                /\ joinCalls'["lan"] = joinCalls["lan"] + 1
                /\ joinArg'["lan"] = addrs
                /\ addrs # <<>>]_vars

\* C8 witness: resolve failed, staticAddrs is non-empty, and the join call
\* of the same iteration was made with staticAddrs and failed.
C8_Witness ==
    /\ resolveErr = DiscoverErr /\ addrs # <<>> /\ disco # <<>>
    /\ pc["lan"] = "fail"
    /\ joinCalls["lan"] = attempt["lan"] + 1
    /\ joinArg["lan"] = addrs

\* C9 (as stated): as long as no JoinLAN call has returned an error the LAN
\* controller delivers no TerminalError.
C9_NoTerminalWithoutJoinError ==
    NoJoinLANError => (delivered["lan"] = 0 /\ pc["lan"] # "send")

\* C9 (amended): as long as no JoinLAN call has returned an error and no
\* iteration had an empty candidate list, the LAN controller has counted no
\* failure and delivers no TerminalError, whatever resolve did.
C9_NoTerminalWithoutFailure ==
    (NoJoinLANError /\ emptyLists = 0) =>
        (delivered["lan"] = 0 /\ pc["lan"] # "send" /\ attempt["lan"] = 0)

\* C9 witness: with a positive maximum, resolve failed and the join of the
\* same iteration succeeded.
C9_Witness ==
    /\ config.RetryMaxAttempts > 0
    /\ resolveErr = DiscoverErr /\ resolveCalls > 0
    /\ joined["lan"] /\ joinCalls["lan"] = 1 /\ emptyLists = 0

\* C10 (as stated): the warning a controller printed before it sleeps
\* carries the error of that iteration and the configured interval.
C10_WarningCarriesIterationErr ==
    \A c \in Ctrl :
        pc[c] = "sleep" =>
            /\ logger[c].last.level = "WARN"
            /\ logger[c].last.interval = IntervalOf(c)
            /\ logger[c].last.err = IterationErr(c)


\* positions of a list whose entry carries no marker
StaticPositions(spec) ==
    {i \in 1..Len(spec) : ~Contains(spec[i], Marker)}

\* C11: once retryJoin has split a non-empty RetryJoin, no entry of addrs
\* contains the marker, and the k-th entry without the marker is the k-th
\* entry of addrs, with nothing else in addrs; the list "10.0.0.1",
\* "provider=mock key=value", "10.0.0.2" gives "10.0.0.1", "10.0.0.2" and the
\* directive "provider=mock key=value".
C11_SplitKeepsStaticInOrder ==
    (pc["lan"] # "start" /\ Len(config.RetryJoin) > 0) =>
        LET spec == config.RetryJoin
            static == StaticPositions(spec)
        IN  /\ \A k \in 1..Len(addrs) : ~Contains(addrs[k], Marker)
            /\ Len(addrs) = Cardinality(static)
            /\ \A i \in static :
                   addrs[Cardinality({j \in static : j <= i})] = spec[i]
            /\ spec = <<Addr1, ProviderMockKV, Addr2>> =>
                   (addrs = <<Addr1, Addr2>> /\ disco = ProviderMockKV)

\* C11 witness: the list of the example has been split.
C11_Witness ==
    /\ config.RetryJoin = <<Addr1, ProviderMockKV, Addr2>>
    /\ pc["lan"] = "resolve"
    /\ addrs = <<Addr1, Addr2>>


\* positions of a list whose entry carries the marker
DirectivePositions(spec) ==
    {i \in 1..Len(spec) : Contains(spec[i], Marker)}

\* the directive at the highest position, "" if there is none
LastDirective(spec) ==
    LET at == DirectivePositions(spec)
    IN  IF at = {} THEN <<>>
        ELSE spec[CHOOSE i \in at : \A j \in at : j <= i]

\* C12: after the split disco is the directive at the highest position of
\* RetryJoin, every discover.Addrs call is made with that directive, and
\* without a directive no call is made.
C12_LastDirectiveOnly ==
    (pc["lan"] # "start" /\ Len(config.RetryJoin) > 0) =>
        /\ disco = LastDirective(config.RetryJoin)
        /\ resolveCalls > 0 => resolveArg = LastDirective(config.RetryJoin)
        /\ DirectivePositions(config.RetryJoin) = {} => resolveCalls = 0

\* C12 witness: two different directives are configured, the earlier one
\* first, and discover.Addrs has been called in two iterations.
C12_Witness ==
    /\ Len(config.RetryJoin) >= 2
    /\ config.RetryJoin[1] = ProviderMock
    /\ config.RetryJoin[Len(config.RetryJoin)] = ProviderMockKV
    /\ resolveCalls = 2
    /\ resolveArg = ProviderMockKV


\* what a controller's attempts and outcome consist of
LocalState(c) ==
    <<pc[c], attempt[c], joinCalls[c], joinArg[c], joinErr[c], joined[c],
      sleeps[c], delivered[c], logger[c]>>

\* the controller is not held at its send
CanProceed(c) == pc[c] = "send" => Len(retryJoinCh) < FailureSinkCap

\* C13 (as stated): no step changes the attempts or the outcome of both
\* controllers, and no step of one controller (its sleep, its success, its
\* exhaustion) takes from the other the ability to proceed.
C13_ControllersIndependent ==
    [][/\ LocalState("lan")' = LocalState("lan")
          \/ LocalState("wan")' = LocalState("wan")
       /\ \A c \in Ctrl :
             (CanProceed(c) /\ LocalState(c)' = LocalState(c)) =>
                 CanProceed(c)']_vars


\* failed iterations of a controller so far: join calls that returned an
\* error, and iterations with an empty candidate list
FailedIterations(c) ==
    joinCalls[c] - (IF joined[c] THEN 1 ELSE 0)
        + (IF c = "lan" THEN emptyLists ELSE 0)

\* C14: attempt changes only in the failure handling, there by exactly one,
\* and so counts the failed iterations handled; with maxAttempts > 0 the
\* controller goes to its send exactly in the failure handling that takes
\* attempt from maxAttempts to maxAttempts + 1, delivers only then, and
\* attempt never exceeds maxAttempts + 1.
C14_AttemptCounter ==
    [][\A c \in Ctrl :
          /\ attempt'[c] >= attempt[c]
          /\ attempt'[c] # attempt[c] =>
                (pc[c] = "fail" /\ attempt'[c] = attempt[c] + 1)
          /\ (pc[c] = "fail" /\ pc'[c] # "fail") =>
                attempt'[c] = attempt[c] + 1
          /\ attempt'[c] =
                FailedIterations(c)' - (IF pc'[c] = "fail" THEN 1 ELSE 0)
          /\ MaxAttemptsOf(c) > 0 =>
                /\ attempt'[c] <= MaxAttemptsOf(c) + 1
                /\ (pc[c] # "send" /\ pc'[c] = "send") =>
                      /\ pc[c] = "fail"
                      /\ attempt[c] = MaxAttemptsOf(c)
                      /\ attempt'[c] = MaxAttemptsOf(c) + 1
                /\ (pc[c] = "fail" /\ attempt'[c] > MaxAttemptsOf(c)) =>
                      pc'[c] = "send"
                /\ delivered'[c] # delivered[c] => pc[c] = "send"
                /\ delivered'[c] > 0 => attempt'[c] = MaxAttemptsOf(c) + 1]_vars

\* C14 witness: both controllers have delivered their TerminalError with
\* attempt at maxAttempts + 1, the LAN one after an empty candidate list.
C14_Witness ==
    /\ delivered["lan"] = 1 /\ delivered["wan"] = 1
    /\ attempt["lan"] = config.RetryMaxAttempts + 1
    /\ attempt["wan"] = config.RetryMaxAttemptsWan + 1
    /\ emptyLists >= 1 /\ joinCalls["lan"] >= 1


\* C15: a LAN iteration whose candidate list is empty goes to the failure
\* handling with the no-servers error and without a JoinLAN call; there the
\* attempt is counted, still without a JoinLAN call, and the controller
\* either warns with the no-servers error or, the maximum exceeded, goes to
\* its send.
C15_EmptyListIsFailure ==
    [][/\ (pc["lan"] = "resolve" /\ pc'["lan"] # "resolve"
              /\ servers' = <<>>) =>
                /\ pc'["lan"] = "fail"
                /\ err' = NoServers
                /\ emptyLists' = emptyLists + 1
                /\ joinCalls'["lan"] = joinCalls["lan"]
       /\ (pc["lan"] = "resolve" /\ pc'["lan"] = "join") => servers' # <<>>
       /\ (pc["lan"] = "fail" /\ servers = <<>> /\ pc'["lan"] # "fail") =>
                /\ attempt'["lan"] = attempt["lan"] + 1
                /\ joinCalls'["lan"] = joinCalls["lan"]
                /\ IF MaxExceeded(config.RetryMaxAttempts, attempt'["lan"])
                   THEN pc'["lan"] = "send"
                   ELSE /\ pc'["lan"] = "sleep"
                        /\ logger'["lan"].last.level = "WARN"
                        /\ logger'["lan"].last.err = NoServers]_vars

\* C15 witness: with a maximum of one, an iteration with an empty candidate
\* list was counted and warned about, and no JoinLAN call was made.
C15_Witness ==
    /\ config.RetryMaxAttempts = 1
    /\ pc["lan"] = "sleep" /\ servers = <<>>
    /\ emptyLists = 1 /\ attempt["lan"] = 1 /\ joinCalls["lan"] = 0
    /\ logger["lan"].last.err = NoServers


\* C16: with a directive, every iteration calls discover.Addrs once, the
\* candidate list is what that call returned followed by addrs, JoinLAN is
\* called with that list, and addrs stays the static entries of RetryJoin in
\* their configured order.
C16_FreshDiscoveryThenStatic ==
    [][(pc["lan"] # "start" /\ disco # <<>>) =>
          /\ addrs' = addrs
          /\ addrs = SelectSeq(config.RetryJoin,
                               LAMBDA e : ~Contains(e, Marker))
          /\ (pc["lan"] = "resolve" /\ pc'["lan"] # "resolve") =>
                /\ resolveCalls' = resolveCalls + 1
                /\ servers' = resolveRes' \o addrs
          /\ (pc["lan"] = "join" /\ pc'["lan"] # "join") =>
                /\ joinArg'["lan"] = resolveRes \o addrs
                /\ resolveCalls' = resolveCalls
          /\ resolveCalls' = sleeps'["lan"]
                + (IF pc'["lan"] = "resolve" THEN 0 ELSE 1)]_vars

\* C16 witness: in the second iteration discover.Addrs found an address and
\* JoinLAN was called with it in front of the two static addresses in their
\* configured order.
C16_Witness ==
    /\ config.RetryJoin = <<Addr1, ProviderMock, Addr2>>
    /\ resolveCalls = 2 /\ sleeps["lan"] = 1
    /\ joinCalls["lan"] = 2
    /\ joinArg["lan"] = <<Found1, Addr1, Addr2>>


\* C17: no step of the WAN controller calls discover.Addrs (only the
\* resolve step of the LAN controller does), every JoinWAN call is made with
\* RetryJoinWan as configured, and with a non-empty list the WAN controller
\* has made one JoinWAN call per iteration.
C17_WanUsesConfiguredList ==
    [][/\ pc'["wan"] # pc["wan"] => resolveHist' = resolveHist
       /\ resolveCalls' # resolveCalls =>
             (pc["lan"] = "resolve" /\ pc'["lan"] # "resolve")
       /\ joinCalls'["wan"] # joinCalls["wan"] =>
             /\ joinCalls'["wan"] = joinCalls["wan"] + 1
             /\ joinArg'["wan"] = config.RetryJoinWan
       /\ (Len(config.RetryJoinWan) > 0 /\ pc'["wan"] # "start") =>
             joinCalls'["wan"] = sleeps'["wan"]
                 + (IF pc'["wan"] = "join" THEN 0 ELSE 1)]_vars

\* C17 witness: RetryJoinWan holds a directive, two JoinWAN calls were made
\* with it, and discover.Addrs was never called.
C17_Witness ==
    /\ config.RetryJoinWan = <<ProviderMock>>
    /\ joinCalls["wan"] = 2 /\ sleeps["wan"] = 1
    /\ joinArg["wan"] = <<ProviderMock>>
    /\ pc["lan"] = "done" /\ resolveCalls = 0


\* the controller has taken the exit of lines 55-58 / 85-88
PastMaximum(c) == pc[c] = "send" \/ delivered[c] > 0

\* C18 (as stated): every failure handled is followed by exactly one sleep
\* before the next iteration, except the one that exceeds the maximum; join
\* calls of a controller come one at a time with a finished sleep between
\* two of them; no sleep follows a success or the exit at the maximum; and
\* a controller is never held anywhere but in its sleep.
C18_OneSleepBetweenIterations ==
    [][\A c \in Ctrl :
          /\ sleeps'[c] =
                attempt'[c] - (IF pc'[c] = "sleep" \/ PastMaximum(c)'
                               THEN 1 ELSE 0)
          /\ joinCalls'[c] <= joinCalls[c] + 1
          /\ joinCalls'[c] <= sleeps'[c] + 1
          /\ (pc[c] = "sleep" /\ pc'[c] # "sleep") =>
                (sleeps'[c] = sleeps[c] + 1
                    /\ pc'[c] = (IF c = "lan" THEN "resolve" ELSE "join"))
          /\ (joined[c] \/ PastMaximum(c)) =>
                (sleeps'[c] = sleeps[c] /\ pc'[c] # "sleep")
          /\ CanProceed(c) /\ CanProceed(c)']_vars

====
